---- MODULE Spec2Model ----
(***************************************************************************)
(* Animated background: object simulation (spawn scheduler with rejection  *)
(* sampling, drift, rotation, culling) and plane / mesh geometry.          *)
(*                                                                         *)
(* Two variants of the simulation exist in the repository:                 *)
(*   "state_rs" : src/background/src/state.rs                              *)
(*   "main_rs"  : src/background/src/main.rs                               *)
(*                                                                         *)
(* The f32 quantities of the simulation are held in fixed point:           *)
(*   time    in ticks,  TimeScale ticks  = 1 second                        *)
(*   length  in units,  LenScale  units  = 1.0                             *)
(*   angle   in units,  AngleScale units = 1 degree                        *)
(* so that every constant of the code (0.1 s, 0.5 /s, 45 deg/s, 0.3, 1.0,  *)
(* 1.74, 5.0, 7.0) is an integer and the arithmetic is exact.  Rounding of *)
(* f32 is outside the model.                                               *)
(***************************************************************************)
EXTENDS Integers, Sequences, FiniteSets, TLC

VARIABLES
    variant,          \* which source file's State is running
    simulation_time,  \* State.simulation_time
    next_spawn,       \* State.next_spawn
    objects,          \* State.objects (Vec<Object>)
    paused,           \* State.paused (main.rs only; FALSE in state.rs)
    pc,               \* position inside update: "idle" | "drain" | "move"
    delta_time,       \* argument of the update call in progress
    attempt,          \* record of the last spawn attempt of the update in progress
    pre_cull,         \* objects after the integration step, before retain
    updates,          \* number of update calls started
    iterations,       \* passes of the drain loop made by the update in progress
    total_attempts,   \* passes of the drain loop made since construction
    born,             \* for each live object, simulation_time when it was pushed
    rng,              \* the random source: the values it yields, in order (periodic)
    rng_pos,          \* index in rng of the next value it yields
    g_call,           \* geometry: the function applied and its arguments
    g_done,           \* geometry: whether the call has returned
    g_out,            \* geometry: what it returned (in cross_sect: the points so far)
    g_i,              \* geometry: how many triangles cross_sect's loop has visited
    framebuffer_size, \* State.framebuffer_size (state.rs only)
    d_pc,             \* position inside draw: "idle" | "sections"
    d_obj,            \* draw: index of the object whose cross-section is computed
    d_tri,            \* draw: how many of its triangles cross_sect has visited
    d_points,         \* draw: the points cross_sect has collected for it
    d_sections,       \* draw: the cross-section cross_sect returned for each object
    cross_sections,   \* draw: the local cross_sections (index, cross-section)
    rendered          \* the framebuffer: draw2d calls since the last clear, in order

simvars == <<variant, simulation_time, next_spawn, objects, paused, pc,
             delta_time, attempt, pre_cull, updates, iterations, total_attempts, born,
             rng, rng_pos>>

geomvars == <<g_call, g_done, g_out, g_i>>

drawvars == <<framebuffer_size, d_pc, d_obj, d_tri, d_points, d_sections,
              cross_sections, rendered>>

vars == <<simvars, geomvars, drawvars>>

----------------------------------------------------------------------------
(* Fixed-point scales *)

TimeScale == 20
LenScale == 40
AngleScale == 4

(* Program constants *)

SPAWN_STEP_DEN == 10        \* next_spawn += 0.1  (= 1/10 s)
RETRIES == 5                \* for _ in 0..5
SEP_NUM == 174              \* 1.74 = 174 / 100
SEP_DEN == 100
SPEED_DEN == 2              \* UNIT_Z * 0.5 * delta_time
ROTATE_DEG == 45            \* Angle::from_degrees(45.0 * delta_time)
FULL_TURN_DEG == 360
MAIN_SPAWN_Z == 5           \* random_spawn of main.rs: z = -5.0
MAIN_CULL_Z == 5            \* retain(|obj| obj.position.z < 5.0)
MAIN_RADIUS == 7            \* random_spawn of main.rs: radius = 7.0

(* Bounds of the model *)

MaxUpdates == 2             \* update calls in one behaviour

----------------------------------------------------------------------------
(* Inputs: frame times and the values the random source can yield *)

\* delta_time of one frame, in ticks: 0, 0.05 s, 0.15 s and a long frame
\* (2.4 s in state.rs, 12.5 s in main.rs: long enough to carry objects past
\* the culling threshold of the variant)
DeltaTimes ==
    IF variant = "state_rs" THEN {0, 1, 3, 48} ELSE {0, 1, 3, 250}

\* rng.gen_range(0.3..=1.0): both ends of the range
Scales == {(3 * LenScale) \div 10, LenScale}

\* x, y of random_spawn: two places inside the spawn box of both variants,
\* 7.0 apart (objects there never overlap)
NearXY == <<0, 0>>
FarXY == <<MAIN_RADIUS * LenScale, 0>>

\* rng.gen_range(0.0..=1.0) of the interval draw of main.rs, in tenths
UnitDraws == {0, 10}

object_colors == <<"color_a", "color_b">>

Prefabs == <<"unit_cube">>

----------------------------------------------------------------------------
(* Vectors of the simulation (fixed point) *)

Vec3(x, y, z) == [x |-> x, y |-> y, z |-> z]

\* squared length of (p - q)
Dist2(p, q) ==
    (p.x - q.x) * (p.x - q.x) + (p.y - q.y) * (p.y - q.y) + (p.z - q.z) * (p.z - q.z)

\* the test with the other object's scale left out
TooClose_own_scale(pos, scale, obj) ==
    SEP_DEN * SEP_DEN * Dist2(pos, obj.position) < (SEP_NUM * scale) * (SEP_NUM * scale)

\* dist < (scale + obj.scale) * 1.74, both sides squared (both are >= 0)
TooClose(pos, scale, obj) ==
    SEP_DEN * SEP_DEN * Dist2(pos, obj.position)
        < (SEP_NUM * (scale + obj.scale)) * (SEP_NUM * (scale + obj.scale))

\* The orientation vector is held in cylindrical form: the polar angle and
\* length of its horizontal part vec2(x, z), and its vertical component y.
Orientation(arg, len, y) == [flat_arg |-> arg, flat_len |-> len, y |-> y]

FullTurn == FULL_TURN_DEG * AngleScale

\* a rotation that also drops the vertical component
rotate_y_flattening(orientation, angle) ==
    [orientation EXCEPT !.flat_arg = (@ + angle) % FullTurn, !.y = 0]

\* Object::rotate_y: vec2(x, z).rotate(angle), y kept
rotate_y(orientation, angle) ==
    [orientation EXCEPT !.flat_arg = (@ + angle) % FullTurn]

\* orientation, roll (degrees) and palette index drawn for a new object
Look(scale) ==
    IF scale = LenScale
    THEN [orientation |-> Orientation(0, 1, 0), roll |-> 0, color |-> 1]
    ELSE [orientation |-> Orientation(90 * AngleScale, 1, -1), roll |-> 90, color |-> 2]

\* the candidate positions a spawn attempt draws: RETRIES + 1 draws of (x, y);
\* the same position i times and another one afterwards
CandStreams ==
    { [i \in 1..(RETRIES + 1) |-> IF i <= t[3] THEN t[1] ELSE t[2]] :
        t \in { <<NearXY, NearXY, 1>>, <<FarXY, FarXY, 1>>,
                <<NearXY, FarXY, 1>>, <<NearXY, FarXY, RETRIES - 1>> } }

\* all the random values one iteration of the drain loop consumes
AttemptRnd ==
    { [u |-> t[1], scale |-> t[2], draws |-> t[3], look |-> Look(t[2])] :
        t \in UnitDraws \X Scales \X CandStreams }

\* the random sources: the drain loop's draws repeat with period 2
RngStreams ==
    { <<a, b>> : a \in {r \in AttemptRnd : r.u = 0}, b \in {r \in AttemptRnd : r.u = 10} }

----------------------------------------------------------------------------
(* The update function, as operators on the simulation state *)

St ==
    [simulation_time |-> simulation_time, next_spawn |-> next_spawn,
     objects |-> objects, paused |-> paused, rng_pos |-> rng_pos]

\* the values the random source yields next
NextRnd(s) == rng[s.rng_pos]

\* half the interval of state.rs in both variants
SpawnInterval_half(r) == TimeScale \div (2 * SPAWN_STEP_DEN)

\* self.next_spawn += ...
SpawnInterval(r) ==
    IF variant = "state_rs"
    THEN TimeScale \div SPAWN_STEP_DEN
    ELSE \* rng.gen_range(0.0..=1.0).sqr() * 0.4 + 0.1, u in tenths
         (r.u * r.u * 4 * TimeScale) \div (10 * 100) + TimeScale \div 10

\* a spawn plane half a scale (half a unit in main.rs) further back
SpawnZ_behind(scale) ==
    IF variant = "state_rs" THEN -((scale * 5) \div 2)
    ELSE -(MAIN_SPAWN_Z * LenScale) - LenScale \div 2

\* z of random_spawn
SpawnZ(scale) ==
    IF variant = "state_rs" THEN -(scale * 2) ELSE -(MAIN_SPAWN_Z * LenScale)

\* the loop stopping as soon as less than a whole step is owed
DrainCondition_whole_step(ns) == ns <= -(TimeScale \div SPAWN_STEP_DEN)

\* while self.next_spawn < 0.0
DrainCondition(ns) == ns < 0

\* the labelled block 'outer: draws[i] is the current pos, i - 1 iterations
\* of the for loop are done
RECURSIVE PlaceLoop(_, _, _, _, _)
PlaceLoop(draws, i, z, scale, objs) ==
    IF i > RETRIES
    THEN [found |-> FALSE, pos |-> <<>>, tested |-> i - 1]
    ELSE LET pos == Vec3(draws[i][1], draws[i][2], z)
         IN  IF \E k \in 1..Len(objs) : TooClose(pos, scale, objs[k])
             THEN PlaceLoop(draws, i + 1, z, scale, objs)
             ELSE [found |-> TRUE, pos |-> pos, tested |-> i]

Color(ix) ==
    IF Len(object_colors) = 0 THEN "WHITE" ELSE object_colors[ix]

NewObject(pos, r) ==
    [geometry |-> Prefabs[1], position |-> pos,
     orientation |-> r.look.orientation, roll |-> r.look.roll,
     scale |-> r.scale, color |-> Color(r.look.color)]

\* the placement with one more pass of the for loop
Place_extra_pass(s, r) ==
    LET res == PlaceLoop(r.draws, 1, SpawnZ(r.scale), r.scale, s.objects)
        pos == Vec3(r.draws[RETRIES + 1][1], r.draws[RETRIES + 1][2], SpawnZ(r.scale))
    IN  IF res.found THEN res
        ELSE IF \E k \in 1..Len(s.objects) : TooClose(pos, r.scale, s.objects[k])
             THEN [found |-> FALSE, pos |-> <<>>, tested |-> RETRIES + 1]
             ELSE [found |-> TRUE, pos |-> pos, tested |-> RETRIES + 1]

Place(s, r) == PlaceLoop(r.draws, 1, SpawnZ(r.scale), r.scale, s.objects)

\* one iteration of a drain loop that restarts the countdown (next_spawn = ...)
\* in place of adding to it
SpawnAttempt_reset(s) ==
    LET r == NextRnd(s)
        res == Place(s, r)
    IN  [s EXCEPT !.next_spawn = SpawnInterval(r),
                  !.objects = IF res.found THEN Append(@, NewObject(res.pos, r)) ELSE @,
                  !.rng_pos = (@ % Len(rng)) + 1]

\* one iteration of the drain loop
SpawnAttempt(s) ==
    LET r == NextRnd(s)
        res == Place(s, r)
    IN  [s EXCEPT !.next_spawn = @ + SpawnInterval(r),
                  !.objects = IF res.found THEN Append(@, NewObject(res.pos, r)) ELSE @,
                  !.rng_pos = (@ % Len(rng)) + 1]

\* the integration with a rotation step that is not scaled by delta_time
Integrate_fixed_turn(obj, dt) ==
    [obj EXCEPT !.position.z = @ + (dt * LenScale) \div (SPEED_DEN * TimeScale),
                !.orientation = rotate_y(@, ROTATE_DEG * AngleScale)]

\* the integration with objects stopping in the plane z = 0
Integrate_stop_at_plane(obj, dt) ==
    LET z == obj.position.z + (dt * LenScale) \div (SPEED_DEN * TimeScale)
    IN  [obj EXCEPT !.position.z = IF obj.position.z <= 0 /\ z > 0 THEN 0 ELSE z,
                    !.orientation = rotate_y(@, (ROTATE_DEG * AngleScale * dt) \div TimeScale)]

\* obj.position += UNIT_Z * 0.5 * delta_time; obj.rotate_y(45 deg * delta_time)
Integrate(obj, dt) ==
    [obj EXCEPT !.position.z = @ + (dt * LenScale) \div (SPEED_DEN * TimeScale),
                !.orientation = rotate_y(@, (ROTATE_DEG * AngleScale * dt) \div TimeScale)]

IntegrateAll(objs, dt) == [i \in 1..Len(objs) |-> Integrate(objs[i], dt)]

\* a culling threshold twice as far
CullThreshold_far(obj) ==
    IF variant = "state_rs" THEN obj.scale * 4 ELSE 2 * MAIN_CULL_Z * LenScale

\* the culling threshold of one object
CullThreshold(obj) ==
    IF variant = "state_rs" THEN obj.scale * 2 ELSE MAIN_CULL_Z * LenScale

\* retain with <= in place of <
Retained_inclusive(obj) == obj.position.z <= CullThreshold(obj)

Retained(obj) == obj.position.z < CullThreshold(obj)

Cull(objs) == SelectSeq(objs, Retained)

\* the entries of b for the objects of moved that retain keeps
RECURSIVE BornOfRetained(_, _)
BornOfRetained(b, moved) ==
    IF moved = <<>> THEN <<>>
    ELSE (IF Retained(Head(moved)) THEN <<Head(b)>> ELSE <<>>)
             \o BornOfRetained(Tail(b), Tail(moved))

\* the clock and the countdown running while paused
Begin_ignoring_pause(s, dt) ==
    [s EXCEPT !.simulation_time = @ + dt, !.next_spawn = @ - dt]

Begin(s, dt) ==
    IF s.paused THEN s
    ELSE [s EXCEPT !.simulation_time = @ + dt, !.next_spawn = @ - dt]

Finish(s, dt) ==
    IF s.paused THEN s
    ELSE [s EXCEPT !.objects = Cull(IntegrateAll(@, dt))]

\* the drain loop
RECURSIVE Drain(_)
Drain(s) == IF DrainCondition(s.next_spawn) THEN Drain(SpawnAttempt(s)) ELSE s

\* the effect of one whole call update(dt) on the simulation state
Update(s, dt) == IF s.paused THEN s ELSE Finish(Drain(Begin(s, dt)), dt)

----------------------------------------------------------------------------
(* Geometry (src/website/background/src/geometry.rs), in exact rational    *)
(* arithmetic: a number is a fraction [n, d] in lowest terms with d > 0.   *)

\* value is computed first and In applied to it (a strict let: the model
\* checker otherwise computes an operator's argument where it is first used)
Let(value, In(_)) == CHOOSE r \in {In(v) : v \in {value}} : TRUE

RECURSIVE Gcd(_, _)
Gcd(a, b) == IF b = 0 THEN a ELSE Gcd(b, a % b)

Abs(i) == IF i < 0 THEN -i ELSE i

Rat(n, d) ==
    LET g == Gcd(Abs(n), Abs(d))
        sg == IF d < 0 THEN -1 ELSE 1
    IN  [n |-> sg * (n \div g), d |-> sg * (d \div g)]

Num(i) == [n |-> i, d |-> 1]
\* the denominators' common factor is taken out before multiplying
RAdd(a, b) ==
    LET g == Gcd(a.d, b.d)
    IN  Rat(a.n * (b.d \div g) + b.n * (a.d \div g), (a.d \div g) * b.d)
RSub(a, b) ==
    LET g == Gcd(a.d, b.d)
    IN  Rat(a.n * (b.d \div g) - b.n * (a.d \div g), (a.d \div g) * b.d)
RMul(a, b) ==
    LET g1 == Gcd(Abs(a.n), b.d)
        g2 == Gcd(Abs(b.n), a.d)
    IN  Rat((a.n \div g1) * (b.n \div g2), (a.d \div g2) * (b.d \div g1))
RDiv(a, b) == RMul(a, Rat(b.d, b.n))
RNeg(a) == [n |-> -a.n, d |-> a.d]
RAbs(a) == [n |-> Abs(a.n), d |-> a.d]
RLt(a, b) ==
    LET g == Gcd(a.d, b.d)
    IN  a.n * (b.d \div g) < b.n * (a.d \div g)
RLe(a, b) ==
    LET g == Gcd(a.d, b.d)
    IN  a.n * (b.d \div g) <= b.n * (a.d \div g)

\* the square root of a perfect square
ISqrt(i) == CHOOSE k \in 0..i : k * k = i

\* f32::sqrt, on the fractions whose root is a fraction
RSqrt(a) == [n |-> ISqrt(a.n), d |-> ISqrt(a.d)]

HasRoot(a) == (\E k \in 0..a.n : k * k = a.n) /\ (\E k \in 0..a.d : k * k = a.d)

vec2(x, y) == [x |-> x, y |-> y]
vec3(x, y, z) == [x |-> x, y |-> y, z |-> z]

\* a vector of whole numbers
ivec3(x, y, z) == vec3(Num(x), Num(y), Num(z))

VAdd(a, b) == vec3(RAdd(a.x, b.x), RAdd(a.y, b.y), RAdd(a.z, b.z))
VSub(a, b) == vec3(RSub(a.x, b.x), RSub(a.y, b.y), RSub(a.z, b.z))
VScale(a, k) == vec3(RMul(a.x, k), RMul(a.y, k), RMul(a.z, k))
dot(a, b) == RAdd(RAdd(RMul(a.x, b.x), RMul(a.y, b.y)), RMul(a.z, b.z))
len_sqr(a) == dot(a, a)
len(a) == RSqrt(len_sqr(a))

\* vec3::normalize_or_zero
normalize_or_zero(a) ==
    Let(len_sqr(a), LAMBDA l2 :
        IF l2 = Num(0) THEN ivec3(0, 0, 0)
        ELSE Let(RDiv(Num(1), RSqrt(l2)), LAMBDA inv : VScale(a, inv)))

\* the f32 literal 1e-5
EPS == Rat(1, 100000)

\* fn unit_line
unit_line == <<-1, 1>>

\* fn array_flatten
array_flatten(arr) == arr[1] \o arr[2]

\* fn unit_square
unit_square ==
    array_flatten(<<[i \in 1..2 |-> <<unit_line[i], -1>>],
                    [i \in 1..2 |-> <<unit_line[i], 1>>]>>)

\* fn unit_cube
unit_cube ==
    array_flatten(<<[i \in 1..4 |-> <<unit_square[i][1], unit_square[i][2], -1>>],
                    [i \in 1..4 |-> <<unit_square[i][1], unit_square[i][2], 1>>]>>)

\* Triangle::new: the normal from the winding
Triangle_new(a, b, c) ==
    Let(VSub(b, a), LAMBDA ab :
    Let(VSub(c, a), LAMBDA ac :
    Let(vec3(RSub(RMul(ab.y, ac.z), RMul(ab.z, ac.y)),
             RSub(RMul(ab.z, ac.x), RMul(ab.x, ac.z)),
             RSub(RMul(ab.x, ac.y), RMul(ab.y, ac.x))), LAMBDA normal :
        [vertices |-> <<a, b, c>>, normal |-> normalize_or_zero(normal)])))

\* Triangle::into_vertices
into_vertices(t) ==
    [i \in 1..3 |-> [a_pos |-> t.vertices[i], a_normal |-> t.normal]]

\* the index triples with the winding of the first one reversed
cube_triangles_flipped ==
    << <<0, 1, 3>>, <<0, 2, 3>>, <<0, 5, 4>>, <<0, 1, 5>>,
       <<1, 7, 5>>, <<1, 3, 7>>, <<2, 4, 6>>, <<2, 0, 4>>,
       <<3, 6, 7>>, <<3, 2, 6>>, <<4, 7, 6>>, <<4, 5, 7>> >>

\* the index triples of unit_cube_triangulated (0-based, as in the source)
cube_triangles ==
    << <<0, 3, 1>>, <<0, 2, 3>>, <<0, 5, 4>>, <<0, 1, 5>>,
       <<1, 7, 5>>, <<1, 3, 7>>, <<2, 4, 6>>, <<2, 0, 4>>,
       <<3, 6, 7>>, <<3, 2, 6>>, <<4, 7, 6>>, <<4, 5, 7>> >>

RECURSIVE Flatten(_)
Flatten(ss) == IF ss = <<>> THEN <<>> ELSE Head(ss) \o Flatten(Tail(ss))

\* fn unit_cube_triangulated
unit_cube_triangulated ==
    LET vertices == [i \in 1..8 |-> ivec3(unit_cube[i][1], unit_cube[i][2], unit_cube[i][3])]
    IN  Flatten([t \in 1..Len(cube_triangles) |->
            into_vertices(Triangle_new(vertices[cube_triangles[t][1] + 1],
                                       vertices[cube_triangles[t][2] + 1],
                                       vertices[cube_triangles[t][3] + 1]))])

\* the triangles of a mesh, as State::draw reads them (step_by(3)), untransformed
MeshTriangles(mesh) ==
    [t \in 1..(Len(mesh) \div 3) |->
        Triangle_new(mesh[3 * t - 2].a_pos, mesh[3 * t - 1].a_pos, mesh[3 * t].a_pos)]

Plane(normal, offset) == [normal |-> normal, offset |-> offset]

\* Plane::distance
distance(plane, point) ==
    Let(normalize_or_zero(plane.normal), LAMBDA n :
        RSub(dot(n, point), plane.offset))

\* project without the normalization of the normal
project_unnormalized(plane, point) ==
    Let(distance(plane, point), LAMBDA dist :
        VSub(point, VScale(plane.normal, dist)))

\* Plane::project
project(plane, point) ==
    Let(distance(plane, point), LAMBDA dist :
    Let(normalize_or_zero(plane.normal), LAMBDA n :
        VSub(point, VScale(n, dist))))

\* vec2::arg, as the cosine and sine of the angle (atan2(0, 0) = 0)
arg(v) ==
    IF v.x = Num(0) /\ v.y = Num(0) THEN [c |-> Num(1), s |-> Num(0)]
    ELSE Let(RSqrt(RAdd(RMul(v.x, v.x), RMul(v.y, v.y))), LAMBDA l :
             [c |-> RDiv(v.x, l), s |-> RDiv(v.y, l)])

\* the angle negated
neg_angle(a) == [c |-> a.c, s |-> RNeg(a.s)]

\* the transpose of mat4::rotate_y(a), applied to v
rotate_y_transposed(a, v) ==
    vec3(RSub(RMul(a.c, v.x), RMul(a.s, v.z)), v.y,
         RAdd(RMul(a.c, v.z), RMul(a.s, v.x)))

\* mat4::rotate_y(a) * v
rotate_y_apply(a, v) ==
    vec3(RAdd(RMul(a.c, v.x), RMul(a.s, v.z)), v.y,
         RSub(RMul(a.c, v.z), RMul(a.s, v.x)))

\* mat4::rotate_z(a) * v
rotate_z_apply(a, v) ==
    vec3(RSub(RMul(a.c, v.x), RMul(a.s, v.y)),
         RAdd(RMul(a.s, v.x), RMul(a.c, v.y)), v.z)

\* Plane::matrix applied to a point:
\* rotate_z(-rot_v) * rotate_y(rot_h) * translate(-normal * offset)
matrix_apply(plane, point) ==
    Let(vec2(plane.normal.x, plane.normal.z), LAMBDA flat :
    Let(arg(flat), LAMBDA rot_h :
    Let(RSqrt(RAdd(RMul(flat.x, flat.x), RMul(flat.y, flat.y))), LAMBDA flat_len :
    Let(arg(vec2(flat_len, plane.normal.y)), LAMBDA rot_v :
    Let(normalize_or_zero(plane.normal), LAMBDA n :
    Let(VSub(point, VScale(n, plane.offset)), LAMBDA moved :
    Let(rotate_y_apply(rot_h, moved), LAMBDA turned :
        rotate_z_apply(neg_angle(rot_v), turned))))))))

\* Plane::project2d
project2d(plane, point) ==
    Let(project(plane, point), LAMBDA on_plane :
    Let(matrix_apply(plane, on_plane), LAMBDA p :
        vec2(p.z, p.y)))

\* Option: None is the empty sequence, Some(x) the sequence of x
None == <<>>
Some(x) == <<x>>

\* intersect_segment with the end points of the segment left out
intersect_segment_open(plane, p1, p2) ==
    Let(distance(plane, p1), LAMBDA d1 :
    Let(distance(plane, p2), LAMBDA d2 :
        IF RLt(RAbs(RSub(d1, d2)), EPS) THEN None
        ELSE Let(RDiv(d1, RSub(d1, d2)), LAMBDA t :
                 IF RLt(Num(0), t) /\ RLt(t, Num(1))
                 THEN Some(VAdd(p1, VScale(VSub(p2, p1), t)))
                 ELSE None)))

\* Plane::intersect_segment
intersect_segment(plane, p1, p2) ==
    Let(distance(plane, p1), LAMBDA d1 :
    Let(distance(plane, p2), LAMBDA d2 :
        IF RLt(RAbs(RSub(d1, d2)), EPS) THEN None
        ELSE Let(RDiv(d1, RSub(d1, d2)), LAMBDA t :
                 IF RLe(Num(0), t) /\ RLe(t, Num(1))
                 THEN Some(VAdd(p1, VScale(VSub(p2, p1), t)))
                 ELSE None)))

\* intersect_triangle that takes the first two points of three
intersect_triangle_first_two(plane, triangle) ==
    LET a == triangle.vertices[1]
        b == triangle.vertices[2]
        c == triangle.vertices[3]
    IN  Let(intersect_segment(plane, a, b) \o intersect_segment(plane, a, c)
                \o intersect_segment(plane, b, c), LAMBDA points :
            IF Len(points) >= 2 THEN Some(<<points[1], points[2]>>) ELSE None)

\* Plane::intersect_triangle
intersect_triangle(plane, triangle) ==
    LET a == triangle.vertices[1]
        b == triangle.vertices[2]
        c == triangle.vertices[3]
    IN  Let(intersect_segment(plane, a, b) \o intersect_segment(plane, a, c)
                \o intersect_segment(plane, b, c), LAMBDA points :
            IF Len(points) = 2 THEN Some(<<points[1], points[2]>>) ELSE None)

\* the inner loop of cross_sect without the test for a point already there
push_new_always(plane, points, p) ==
    Let(project2d(plane, p), LAMBDA projected :
        Append(points, [world_pos |-> p, projected |-> projected]))

\* the inner loop of cross_sect: push p unless a point closer than 1e-5
\* (squared) is there
push_new(plane, points, p) ==
    IF \E k \in 1..Len(points) : RLt(len_sqr(VSub(points[k].world_pos, p)), EPS)
    THEN points
    ELSE Let(project2d(plane, p), LAMBDA projected :
             Append(points, [world_pos |-> p, projected |-> projected]))

\* one iteration of the loop of cross_sect: the two points of a hit pushed
collect_step(plane, points, triangle) ==
    Let(intersect_triangle(plane, triangle), LAMBDA hit :
        IF hit = None THEN points
        ELSE Let(push_new(plane, points, hit[1][1]), LAMBDA first :
                 push_new(plane, first, hit[1][2])))

\* the order of atan2 angles in (-pi, pi]: 1 below the x axis, 2 on its
\* positive side (and the zero vector), 3 above it, 4 on its negative side
half(v) ==
    IF RLt(v.y, Num(0)) THEN 1
    ELSE IF RLt(Num(0), v.y) THEN 3
    ELSE IF RLt(v.x, Num(0)) THEN 4 ELSE 2

\* u.arg() < v.arg()
arg_less(u, v) ==
    \/ half(u) < half(v)
    \/ /\ half(u) = half(v)
       /\ half(u) \in {1, 3}
       /\ RLt(Num(0), RSub(RMul(u.x, v.y), RMul(u.y, v.x)))

VSub2(a, b) == vec2(RSub(a.x, b.x), RSub(a.y, b.y))

\* sort_by_key(|p| -(p.projected - com).arg()): a stable sort, so point i
\* comes before point j when its angle is larger, or equal and i < j
comes_before(points, com, i, j) ==
    \E u \in {VSub2(points[i].projected, com)}, v \in {VSub2(points[j].projected, com)} :
        \/ arg_less(v, u)
        \/ ~arg_less(u, v) /\ i < j

\* no sort: the points as the loop pushed them
sort_by_key_skipped(points, com) == points

sort_by_key(points, com) ==
    LET n == Len(points)
        rank(j) == Cardinality({i \in 1..n : comes_before(points, com, i, j)}) + 1
    IN  [r \in 1..n |-> points[CHOOSE j \in 1..n : rank(j) = r]]

RECURSIVE sum_projected(_, _)
sum_projected(points, n) ==
    IF n = 0 THEN vec2(Num(0), Num(0))
    ELSE Let(sum_projected(points, n - 1), LAMBDA r :
             vec2(RAdd(r.x, points[n].projected.x), RAdd(r.y, points[n].projected.y)))

\* Plane::cross_sect after its loop: the points sorted around their mean
sort_section(points) ==
    IF points = <<>> THEN points
    ELSE Let(sum_projected(points, Len(points)), LAMBDA total :
         Let(vec2(RDiv(total.x, Num(Len(points))), RDiv(total.y, Num(Len(points)))),
             LAMBDA com : sort_by_key(points, com)))

----------------------------------------------------------------------------
(* Drawing (State::draw and draw_flat_section) *)

\* cosine and sine of an angle given in angle units; defined on the right
\* angles, the ones whose cosine and sine the model's numbers can hold
CosSin(angle) ==
    CASE angle % FullTurn = 0 -> [c |-> Num(1), s |-> Num(0)]
      [] angle % FullTurn = FullTurn \div 4 -> [c |-> Num(0), s |-> Num(1)]
      [] angle % FullTurn = FullTurn \div 2 -> [c |-> Num(-1), s |-> Num(0)]
      [] angle % FullTurn = 3 * (FullTurn \div 4) -> [c |-> Num(0), s |-> Num(-1)]

\* mat4::rotate_x(a) * v
rotate_x_apply(a, v) ==
    vec3(v.x, RSub(RMul(a.c, v.y), RMul(a.s, v.z)),
         RAdd(RMul(a.s, v.y), RMul(a.c, v.z)))

\* the fixed-point position of an object as a vector of numbers
WorldPosition(obj) ==
    vec3(Rat(obj.position.x, LenScale), Rat(obj.position.y, LenScale),
         Rat(obj.position.z, LenScale))

\* flat.arg() of Object::matrix: 0 for the zero vector
rot_h_of(obj) ==
    IF obj.orientation.flat_len = 0 THEN CosSin(0)
    ELSE CosSin(obj.orientation.flat_arg)

\* transform of State::draw: (obj.matrix() * v.extend(1.0)).into_3d(), with
\* Object::matrix = translate(position) * rotate_x(roll) * rotate_z(-rot_v)
\*                  * rotate_y(rot_h) * scale_uniform(scale)
transform(obj, v) ==
    Let(VScale(v, Rat(obj.scale, LenScale)), LAMBDA scaled :
    Let(rotate_y_apply(rot_h_of(obj), scaled), LAMBDA turned :
    Let(arg(vec2(Num(obj.orientation.flat_len), Num(obj.orientation.y))), LAMBDA rot_v :
    Let(rotate_z_apply(neg_angle(rot_v), turned), LAMBDA tilted :
    Let(rotate_x_apply(CosSin(obj.roll * AngleScale), tilted), LAMBDA rolled :
        VAdd(WorldPosition(obj), rolled))))))

\* the vertex buffer of a prefab
Geometry(name) == unit_cube_triangulated

\* the t-th triangle State::draw hands to cross_sect for obj
ObjectTriangle(obj, t) ==
    Let(Geometry(obj.geometry), LAMBDA mesh :
    Let(transform(obj, mesh[3 * t - 2].a_pos), LAMBDA a :
    Let(transform(obj, mesh[3 * t - 1].a_pos), LAMBDA b :
    Let(transform(obj, mesh[3 * t].a_pos), LAMBDA c :
        Triangle_new(a, b, c)))))

TriangleCount(obj) == Len(Geometry(obj.geometry)) \div 3

\* cross_plane of State::draw
cross_plane == Plane(ivec3(0, 0, 1), Num(0))

\* (cross_section.len() >= 3).then_some(...)
keep_section(section) == Len(section) >= 3

mirror_x(v) == vec2(RNeg(v.x), v.y)

\* the least and the greatest of a set of numbers
LeastOf(S) == CHOOSE m \in S : \A o \in S : RLe(m, o)
GreatestOf(S) == CHOOSE m \in S : \A o \in S : RLe(o, m)

\* Aabb2::points_bounding_box(chain).size() / 2.0
BoxRadius(chain) ==
    LET xs == {chain[i].x : i \in 1..Len(chain)}
        ys == {chain[i].y : i \in 1..Len(chain)}
    IN  vec2(RDiv(RSub(GreatestOf(xs), LeastOf(xs)), Num(2)),
             RDiv(RSub(GreatestOf(ys), LeastOf(ys)), Num(2)))

\* f32::min
fmin(a, b) == IF RLt(b, a) THEN b ELSE a

\* the width of the drawn line
LineWidth(chain) ==
    IF variant = "state_rs"
    THEN Let(BoxRadius(chain), LAMBDA radius :
             fmin(fmin(Rat(1, 10), radius.x), radius.y))
    ELSE Rat(1, 10)

\* the chain closed by repeating its first point
close_chain_plain(chain) == Append(chain, chain[1])

\* "Close the chain": mid = (chain[0] + chain[1]) / 2;
\* chain.extend([chain[0], mid]); chain[0] = mid
close_chain(chain) ==
    Let(vec2(RDiv(RAdd(chain[1].x, chain[2].x), Num(2)),
             RDiv(RAdd(chain[1].y, chain[2].y), Num(2))), LAMBDA mid :
        <<mid>> \o Tail(chain) \o <<chain[1], mid>>)

\* draw_flat_section: the draw2d calls it makes
draw_flat_section(cross_section, color) ==
    IF Len(cross_section) < 3 THEN <<>>
    ELSE Let([i \in 1..Len(cross_section) |-> mirror_x(cross_section[i].projected)],
             LAMBDA chain :
                 << [chain |-> close_chain(chain), width |-> LineWidth(chain),
                     color |-> color] >>)

\* the loop "for (i, cross_section) in &cross_sections" with the color of
\* the first object for every polygon
RECURSIVE draw_all_first_color(_, _)
draw_all_first_color(sections, objs) ==
    IF sections = <<>> THEN <<>>
    ELSE draw_flat_section(Head(sections)[2], objs[1].color)
             \o draw_all_first_color(Tail(sections), objs)

\* the loop "for (i, cross_section) in &cross_sections"
RECURSIVE draw_all(_, _)
draw_all(sections, objs) ==
    IF sections = <<>> THEN <<>>
    ELSE draw_flat_section(Head(sections)[2], objs[Head(sections)[1]].color)
             \o draw_all(Tail(sections), objs)

----------------------------------------------------------------------------
(* The state machine *)

NoAttempt == [made |-> FALSE]

NoCall == [fn |-> "none"]

\* no draw call made yet: framebuffer_size as State::new sets it
NoDraw ==
    /\ framebuffer_size = <<1, 1>>
    /\ d_pc = "idle" /\ d_obj = 0 /\ d_tri = 0 /\ d_points = <<>>
    /\ d_sections = <<>> /\ cross_sections = <<>> /\ rendered = <<>>

Init ==
    /\ g_call = NoCall /\ g_done = FALSE /\ g_out = <<>> /\ g_i = 0
    /\ NoDraw
    /\ variant \in {"state_rs", "main_rs"}
    /\ simulation_time = 0
    /\ next_spawn = 0
    /\ objects = <<>>
    /\ paused = FALSE
    /\ pc = "idle"
    /\ delta_time = 0
    /\ attempt = NoAttempt
    /\ pre_cull = <<>>
    /\ updates = 0
    /\ iterations = 0
    /\ total_attempts = 0
    /\ born = <<>>
    /\ rng \in RngStreams
    /\ rng_pos = 1

SetState(s) ==
    /\ simulation_time' = s.simulation_time
    /\ next_spawn' = s.next_spawn
    /\ objects' = s.objects
    /\ paused' = s.paused
    /\ rng_pos' = s.rng_pos

\* update(delta_time), up to the drain loop
UpdateBegin(dt) ==
    /\ pc = "idle"
    /\ updates < MaxUpdates
    /\ SetState(Begin(St, dt))
    /\ delta_time' = dt
    /\ pc' = IF paused THEN "move" ELSE "drain"
    /\ attempt' = NoAttempt
    /\ pre_cull' = <<>>
    /\ updates' = updates + 1
    /\ iterations' = 0
    /\ UNCHANGED <<variant, total_attempts, born, rng, geomvars, drawvars>>

\* one iteration of the drain loop
SpawnStep ==
    /\ pc = "drain"
    /\ DrainCondition(next_spawn)
    /\ SetState(SpawnAttempt(St))
    /\ attempt' = [made |-> TRUE, before |-> St, scale |-> NextRnd(St).scale,
                   tested |-> SubSeq(NextRnd(St).draws, 1, Place(St, NextRnd(St)).tested),
                   created |-> Place(St, NextRnd(St)).found,
                   interval |-> SpawnInterval(NextRnd(St))]
    /\ iterations' = iterations + 1
    /\ total_attempts' = total_attempts + 1
    /\ born' = IF Place(St, NextRnd(St)).found
               THEN Append(born, simulation_time) ELSE born
    /\ UNCHANGED <<variant, pc, delta_time, pre_cull, updates, rng, geomvars, drawvars>>

\* the rest of update: integration and culling
UpdateFinish ==
    /\ \/ pc = "drain" /\ ~DrainCondition(next_spawn)
       \/ pc = "move"
    /\ SetState(Finish(St, delta_time))
    /\ pre_cull' = IF paused THEN <<>> ELSE IntegrateAll(objects, delta_time)
    /\ pc' = "idle"
    /\ attempt' = NoAttempt
    /\ iterations' = 0
    /\ born' = IF paused THEN born
               ELSE BornOfRetained(born, IntegrateAll(objects, delta_time))
    /\ UNCHANGED <<variant, delta_time, updates, total_attempts, rng, geomvars, drawvars>>

\* handle_event of main.rs: a press of key P
handle_event ==
    /\ variant = "main_rs"
    /\ pc = "idle"
    /\ paused' = ~paused
    /\ UNCHANGED <<variant, simulation_time, next_spawn, objects, pc,
                   delta_time, attempt, pre_cull, updates, iterations,
                   total_attempts, born, rng, rng_pos, geomvars, drawvars>>

Next ==
    \/ \E dt \in DeltaTimes : UpdateBegin(dt)
    \/ SpawnStep
    \/ UpdateFinish
    \/ handle_event

Spec == Init /\ [][Next]_vars

----------------------------------------------------------------------------
(* The geometry functions applied to bounded inputs *)

X_AXIS == ivec3(1, 0, 0)
Y_AXIS == ivec3(0, 1, 0)
Z_AXIS == ivec3(0, 0, 1)

Axes == {X_AXIS, Y_AXIS, Z_AXIS}

AxisNormals == Axes \cup {VScale(a, Num(-1)) : a \in Axes}

\* normals that are not unit vectors and not along an axis; each has a
\* rational length (the root in normalize_or_zero is exact)
OtherNormals ==
    { ivec3(2, 0, 0), ivec3(0, 0, -3), vec3(Rat(1, 2), Num(0), Num(0)),
      ivec3(3, 4, 0), ivec3(0, 3, 4), ivec3(3, 0, -4), ivec3(1, 2, 2) }

\* the normals among them whose horizontal part has a rational length too
FrameNormals ==
    { n \in AxisNormals \cup OtherNormals :
        HasRoot(RAdd(RMul(n.x, n.x), RMul(n.z, n.z))) }

PlaneOffsets == {Num(0), Num(2), Num(-3), Rat(1, 2)}

Points ==
    { ivec3(10, 2, 1), ivec3(1, 2, 10), ivec3(1, 1, 2), ivec3(0, 0, 0),
      vec3(Num(-1), Rat(7, 2), Num(-2)) }

\* offsets k of the plane that cuts the segment from x = 0 to x = 10
SegmentOffsets ==
    { Num(-1), Rat(-1, 1000), Num(0), Rat(1, 2), Num(3), Num(10), Rat(10001, 1000), Num(11) }

\* the (y, z) of the segments (0, y, z) -- (10, y, z)
SegmentYZ == { <<Num(0), Num(0)>>, <<Num(2), Num(-3)>>, <<Rat(1, 2), Num(7)>> }

Segments ==
    { <<vec3(Num(0), yz[1], yz[2]), vec3(Num(10), yz[1], yz[2])>> : yz \in SegmentYZ }
      \cup { <<ivec3(10, 1, 1), ivec3(0, 1, 1)>>, <<ivec3(0, 0, 0), ivec3(0, 5, 5)>> }

\* offsets of the plane that cuts the unit cube
CubeOffsets ==
    { Num(-2), Rat(-1001, 1000), Num(-1), Rat(-999, 1000), Rat(-99, 100), Rat(-1, 2),
      Num(0), Rat(1, 3), Rat(99, 100), Rat(999, 1000), Num(1), Rat(1001, 1000), Num(2) }

\* planes that cut the cube at a slant: normals of rational length whose
\* horizontal part has a rational length too, not normalized
SlantNormals == { ivec3(3, 4, 0), ivec3(0, 3, 4), ivec3(3, 0, -4), ivec3(0, -4, 3) }

\* 7/5 is where the plane with normal (3, 4, 0) touches an edge of the cube
SlantOffsets == { Num(0), Rat(1, 2), Num(1), Rat(-1, 5), Rat(7, 5), Num(2) }

\* corners of the triangles handed to intersect_triangle
TriangleCorners ==
    { ivec3(-1, 0, 0), ivec3(1, 0, 0), ivec3(0, 1, 0), ivec3(0, 0, 1),
      ivec3(2, 1, 3), ivec3(-2, -1, 1), vec3(Rat(1, 2), Num(0), Num(2)) }

\* corners closer to the plane x = 0 than the 1e-5 of intersect_segment,
\* one on each side of it
CloseCorners ==
    { vec3(Rat(1, 400000), Num(0), Num(0)), vec3(Rat(-1, 400000), Num(1), Num(0)) }

\* triangles with three different corners among corners, in every winding;
\* of a Triangle intersect_triangle reads the vertices only, and the normal
\* is left out
TrianglesOf(corners) ==
    { [vertices |-> <<t[1], t[2], t[3]>>] :
        t \in { u \in corners \X corners \X corners :
                  u[1] # u[2] /\ u[1] # u[3] /\ u[2] # u[3] } }

TrianglePlanes ==
    { Plane(X_AXIS, Num(0)), Plane(X_AXIS, Rat(1, 2)), Plane(ivec3(0, 0, -3), Num(-1)),
      Plane(ivec3(3, 4, 0), Num(0)) }

\* the triangles with a corner close to the plane meet the plane x = 0 only
TriangleCalls ==
    { [fn |-> "intersect_triangle", plane |-> t[1], triangle |-> t[2]] :
        t \in TrianglePlanes \X TrianglesOf(TriangleCorners) }
    \cup
    { [fn |-> "intersect_triangle", plane |-> Plane(X_AXIS, Num(0)), triangle |-> t] :
        t \in TrianglesOf(CloseCorners \cup {ivec3(-1, 0, 0), ivec3(1, 0, 0), ivec3(0, 1, 0)}) }

\* projected points of cross-sections: none, fewer than 3, a triangle, a
\* square, a strip thinner than the line, a pentagon and a hexagon
FlatPolygons ==
    { <<>>,
      << <<Num(1), Num(0)>> >>,
      << <<Num(1), Num(0)>>, <<Num(-1), Num(0)>> >>,
      << <<Num(2), Num(-1)>>, <<Num(0), Num(3)>>, <<Num(-2), Num(-1)>> >>,
      << <<Num(1), Num(1)>>, <<Num(-1), Num(1)>>, <<Num(-1), Num(-1)>>, <<Num(1), Num(-1)>> >>,
      << <<Num(1), Rat(1, 40)>>, <<Num(-1), Rat(1, 40)>>, <<Num(-1), Rat(-1, 40)>>,
         <<Num(1), Rat(-1, 40)>> >>,
      << <<Num(2), Num(0)>>, <<Num(1), Num(2)>>, <<Num(-1), Num(1)>>, <<Num(-1), Num(-1)>>,
         <<Num(1), Num(-2)>> >>,
      << <<Num(2), Num(0)>>, <<Num(1), Num(2)>>, <<Num(-1), Num(2)>>, <<Num(-2), Num(0)>>,
         <<Num(-1), Num(-2)>>, <<Num(1), Num(-2)>> >> }

\* the cross-section of the plane z = 0 with these projected points
FlatSection(polygon) ==
    [i \in 1..Len(polygon) |->
        [world_pos |-> vec3(RNeg(polygon[i][1]), polygon[i][2], Num(0)),
         projected |-> vec2(polygon[i][1], polygon[i][2])]]

FlatSectionCalls ==
    { [fn |-> "draw_flat_section", cross_section |-> FlatSection(t[1]), color |-> t[2]] :
        t \in FlatPolygons \X {object_colors[1]} }

Calls ==
    { [fn |-> "project", plane |-> Plane(t[1], t[2]), point |-> t[3]] :
        t \in (AxisNormals \cup OtherNormals) \X PlaneOffsets \X Points }
    \cup
    { [fn |-> "project2d", plane |-> Plane(t[1], t[2]), point |-> t[3]] :
        t \in FrameNormals \X PlaneOffsets \X Points }
    \cup
    { [fn |-> "intersect_segment", plane |-> Plane(t[1], t[2]), p1 |-> t[3][1], p2 |-> t[3][2]] :
        t \in {X_AXIS, ivec3(2, 0, 0), Y_AXIS} \X SegmentOffsets \X Segments }
    \cup
    { [fn |-> "cross_sect", plane |-> Plane(t[1], t[2])] : t \in AxisNormals \X CubeOffsets }
    \cup
    { [fn |-> "cross_sect", plane |-> Plane(t[1], t[2])] : t \in SlantNormals \X SlantOffsets }
    \cup
    TriangleCalls
    \cup
    FlatSectionCalls
    \cup
    { [fn |-> "unit_cube_triangulated"] }

GeomInit ==
    /\ g_call \in Calls /\ g_done = FALSE /\ g_out = <<>> /\ g_i = 0
    /\ NoDraw
    /\ variant \in (IF g_call.fn = "draw_flat_section"
                    THEN {"state_rs", "main_rs"} ELSE {"state_rs"})
    /\ simulation_time = 0
    /\ next_spawn = 0
    /\ objects = <<>>
    /\ paused = FALSE
    /\ pc = "idle"
    /\ delta_time = 0
    /\ attempt = NoAttempt
    /\ pre_cull = <<>>
    /\ updates = 0
    /\ iterations = 0
    /\ total_attempts = 0
    /\ born = <<>>
    /\ rng = <<>>
    /\ rng_pos = 1

\* the call in progress returns value
Return(value) ==
    /\ ~g_done
    /\ g_done' = TRUE
    /\ g_out' = value
    /\ UNCHANGED <<g_call, g_i, simvars, drawvars>>

call_project ==
    /\ g_call.fn = "project"
    /\ Return(project(g_call.plane, g_call.point))

call_project2d ==
    /\ g_call.fn = "project2d"
    /\ Return(project2d(g_call.plane, g_call.point))

call_intersect_segment ==
    /\ g_call.fn = "intersect_segment"
    /\ Return(intersect_segment(g_call.plane, g_call.p1, g_call.p2))

call_intersect_triangle ==
    /\ g_call.fn = "intersect_triangle"
    /\ Return(intersect_triangle(g_call.plane, g_call.triangle))

\* the triangles State::draw hands to cross_sect for the prefab
prefab_triangles == MeshTriangles(unit_cube_triangulated)

\* one iteration of cross_sect's loop over the triangles
cross_sect_loop ==
    /\ g_call.fn = "cross_sect"
    /\ ~g_done
    /\ g_i < Len(prefab_triangles)
    /\ g_i' = g_i + 1
    /\ g_out' = collect_step(g_call.plane, g_out, prefab_triangles[g_i + 1])
    /\ UNCHANGED <<g_call, g_done, simvars, drawvars>>

\* cross_sect after the loop: the sort and the return
cross_sect_return ==
    /\ g_call.fn = "cross_sect"
    /\ g_i = Len(prefab_triangles)
    /\ Return(sort_section(g_out))

call_unit_cube_triangulated ==
    /\ g_call.fn = "unit_cube_triangulated"
    /\ Return(unit_cube_triangulated)

call_draw_flat_section ==
    /\ g_call.fn = "draw_flat_section"
    /\ Return(draw_flat_section(g_call.cross_section, g_call.color))

GeomNext ==
    \/ call_project
    \/ call_project2d
    \/ call_intersect_segment
    \/ call_intersect_triangle
    \/ cross_sect_loop
    \/ cross_sect_return
    \/ call_unit_cube_triangulated
    \/ call_draw_flat_section

SpecGeom == GeomInit /\ [][GeomNext]_vars

----------------------------------------------------------------------------
(* The frame loop: update and draw calls in any order, from scenes whose   *)
(* objects stand at right angles                                           *)

\* objects of a running simulation: a unit cube in the plane z = 0, a small
\* cube short of it and a small cube, turned upright and rolled, that it cuts
SceneObjects ==
    [ a |-> [geometry |-> Prefabs[1], position |-> Vec3(0, 0, 0),
             orientation |-> Orientation(0, 1, 0), roll |-> 0,
             scale |-> LenScale, color |-> object_colors[1]],
      b |-> [geometry |-> Prefabs[1], position |-> Vec3(MAIN_RADIUS * LenScale, 0, -20),
             orientation |-> Orientation(FullTurn \div 4, 1, 0), roll |-> 90,
             scale |-> (3 * LenScale) \div 10, color |-> object_colors[2]],
      c |-> [geometry |-> Prefabs[1], position |-> Vec3((MAIN_RADIUS * LenScale) \div 2, 0, 6),
             orientation |-> Orientation(0, 0, 1), roll |-> 180,
             scale |-> (3 * LenScale) \div 10, color |-> object_colors[2]] ]

Scenes ==
    { <<>>,
      <<SceneObjects.a, SceneObjects.b>>,
      <<SceneObjects.b, SceneObjects.a, SceneObjects.c>> }

\* frames of 0 s and of 2 s (a quarter turn of every object)
FrameTimes == {0, 2 * TimeScale}

\* a random source whose new objects stand at right angles, away from the
\* objects of the scenes
FrameRngStreams ==
    {r \in RngStreams : \A i \in 1..Len(r) : r[i].scale = LenScale /\ r[i].draws[1] = FarXY}

\* framebuffer.size()
FramebufferSizes == { <<16, 9>> }

FrameInit ==
    /\ g_call = NoCall /\ g_done = FALSE /\ g_out = <<>> /\ g_i = 0
    /\ NoDraw
    /\ variant \in {"state_rs", "main_rs"}
    /\ simulation_time = 20 * TimeScale
    /\ next_spawn = 0
    /\ objects \in Scenes
    /\ paused = FALSE
    /\ pc = "idle"
    /\ delta_time = 0
    /\ attempt = NoAttempt
    /\ pre_cull = <<>>
    /\ updates = 0
    /\ iterations = 0
    /\ total_attempts = 0
    /\ born = [i \in 1..Len(objects) |->
                  simulation_time - (objects[i].position.z - SpawnZ(objects[i].scale))]
    /\ rng \in FrameRngStreams
    /\ rng_pos = 1

\* draw, up to the flat_map: framebuffer_size, the clear, cross_plane
draw_begin(size) ==
    /\ pc = "idle" /\ d_pc = "idle"
    /\ framebuffer_size' = IF variant = "state_rs" THEN size ELSE framebuffer_size
    /\ rendered' = <<>>
    /\ cross_sections' = <<>>
    /\ d_sections' = <<>>
    /\ d_obj' = 1 /\ d_tri' = 0 /\ d_points' = <<>>
    /\ d_pc' = "sections"
    /\ UNCHANGED <<simvars, geomvars>>

\* one iteration of cross_sect's loop over the triangles of the current object
draw_cross_sect_loop ==
    /\ d_pc = "sections"
    /\ d_obj <= Len(objects)
    /\ d_tri < TriangleCount(objects[d_obj])
    /\ d_points' = collect_step(cross_plane, d_points, ObjectTriangle(objects[d_obj], d_tri + 1))
    /\ d_tri' = d_tri + 1
    /\ UNCHANGED <<framebuffer_size, d_pc, d_obj, d_sections, cross_sections, rendered,
                   simvars, geomvars>>

\* a draw that also shrinks away the objects it does not draw
draw_cross_sect_return_culling ==
    /\ d_pc = "sections"
    /\ d_obj <= Len(objects)
    /\ d_tri = TriangleCount(objects[d_obj])
    /\ LET section == sort_section(d_points)
       IN  /\ d_sections' = Append(d_sections, section)
           /\ cross_sections' = IF keep_section(section)
                                THEN Append(cross_sections, <<d_obj, section>>)
                                ELSE cross_sections
           /\ objects' = IF keep_section(section) THEN objects
                         ELSE [i \in 1..Len(objects) |->
                                  IF i = d_obj THEN [objects[i] EXCEPT !.scale = 0]
                                  ELSE objects[i]]
    /\ d_obj' = d_obj + 1 /\ d_tri' = 0 /\ d_points' = <<>>
    /\ UNCHANGED <<framebuffer_size, d_pc, rendered, geomvars, variant, simulation_time,
                   next_spawn, paused, pc, delta_time, attempt, pre_cull, updates,
                   iterations, total_attempts, born, rng, rng_pos>>

\* cross_sect's sort and return for the current object, and the filter of
\* the flat_map
draw_cross_sect_return ==
    /\ d_pc = "sections"
    /\ d_obj <= Len(objects)
    /\ d_tri = TriangleCount(objects[d_obj])
    /\ LET section == sort_section(d_points)
       IN  /\ d_sections' = Append(d_sections, section)
           /\ cross_sections' = IF keep_section(section)
                                THEN Append(cross_sections, <<d_obj, section>>)
                                ELSE cross_sections
    /\ d_obj' = d_obj + 1 /\ d_tri' = 0 /\ d_points' = <<>>
    /\ UNCHANGED <<framebuffer_size, d_pc, rendered, simvars, geomvars>>

\* the loop that draws the cross-sections, and the return of draw
draw_sections ==
    /\ d_pc = "sections"
    /\ d_obj > Len(objects)
    /\ rendered' = draw_all(cross_sections, objects)
    /\ d_pc' = "idle"
    /\ UNCHANGED <<framebuffer_size, d_obj, d_tri, d_points, d_sections, cross_sections,
                   simvars, geomvars>>

\* geng's loop calls update, draw and handle_event one after another
frame_update(dt) == d_pc = "idle" /\ UpdateBegin(dt)

frame_event == d_pc = "idle" /\ handle_event

FrameNext ==
    \/ \E dt \in FrameTimes : frame_update(dt)
    \/ SpawnStep
    \/ UpdateFinish
    \/ frame_event
    \/ \E size \in FramebufferSizes : draw_begin(size)
    \/ draw_cross_sect_loop
    \/ draw_cross_sect_return
    \/ draw_sections

SpecFrame == FrameInit /\ [][FrameNext]_vars

----------------------------------------------------------------------------
(* Claims about the simulation *)

\* |position_a - position_b| >= (scale_a + scale_b) * 1.74
FarEnough(a, b) ==
    10000 * Dist2(a.position, b.position)
        >= (174 * (a.scale + b.scale)) * (174 * (a.scale + b.scale))

PairwiseFar(objs) ==
    \A i, j \in 1..Len(objs) : i # j => FarEnough(objs[i], objs[j])

JustSpawned == pc = "drain" /\ attempt.made /\ attempt.created

\* C1: immediately after a spawn attempt that pushed an object (before the
\* integration step of that update) every two distinct live objects are at
\* least (scale_i + scale_j) * 1.74 apart.
C1_SeparatedAfterSpawn == JustSpawned => PairwiseFar(objects)

\* an object pushed in the second update, next to one that has drifted
C1_Witness ==
    /\ JustSpawned
    /\ updates = 2
    /\ Len(objects) >= 2
    /\ objects[1].position.z # objects[Len(objects)].position.z

\* C2: at the end of every update call next_spawn >= 0.
C2_CountdownNonNegative == (pc = "idle") => next_spawn >= 0

\* an update whose frame time is longer than one spawn interval has ended
C2_Witness ==
    pc = "idle" /\ variant = "state_rs" /\ delta_time = 3 /\ next_spawn = 1

\* the candidate (x, y) at the depth of this attempt
CandidateAt(xy, scale) == Vec3(xy[1], xy[2], SpawnZ(scale))

ClearOfAll(pos, scale, objs) ==
    \A k \in 1..Len(objs) :
        10000 * Dist2(pos, objs[k].position)
            >= (174 * (scale + objs[k].scale)) * (174 * (scale + objs[k].scale))

\* C7: a spawn attempt tests at most 5 candidates; it creates an object iff
\* one of the tested candidates is clear of every live object; when all 5
\* fail no object is created and the collection is unchanged; the countdown
\* is advanced by the attempt's interval either way.
C7_BoundedPlacement ==
    attempt.made =>
        LET n == Len(attempt.tested)
            clear(i) == ClearOfAll(CandidateAt(attempt.tested[i], attempt.scale),
                                   attempt.scale, attempt.before.objects)
        IN  /\ n >= 1 /\ n <= 5
            /\ attempt.created <=> (\E i \in 1..n : clear(i))
            /\ attempt.created =>
                 /\ Len(objects) = Len(attempt.before.objects) + 1
                 /\ SubSeq(objects, 1, Len(objects) - 1) = attempt.before.objects
                 /\ objects[Len(objects)].position
                      = CandidateAt(attempt.tested[n], attempt.scale)
                 /\ clear(n)
            /\ ~attempt.created => (n = 5 /\ objects = attempt.before.objects)
            /\ attempt.interval >= 2 /\ attempt.interval <= 10
            /\ next_spawn = attempt.before.next_spawn + attempt.interval

\* all 5 tested candidates failed against a live object
C7_Witness ==
    /\ attempt.made /\ ~attempt.created
    /\ Len(attempt.tested) = 5
    /\ Len(objects) >= 1

LastUpdateCulled == pc = "idle" /\ updates > 0 /\ ~paused

\* the original statement of C4: the culling threshold depends on the
\* object's own scale (2 * scale) in both variants
C4_ScaleThresholdBoth ==
    LastUpdateCulled =>
        \A i \in 1..Len(pre_cull) :
            LET o == pre_cull[i]
            IN  (o.position.z >= 2 * o.scale) <=> ~(\E j \in 1..Len(objects) : objects[j] = o)

\* C4 (amended): after the integration step update removes exactly the
\* objects whose z has reached the threshold, which is 2 * scale in state.rs
\* and the fixed value 5.0 in main.rs.
C4_CullAtThreshold ==
    LastUpdateCulled =>
        \A i \in 1..Len(pre_cull) :
            LET o == pre_cull[i]
                threshold == IF variant = "state_rs" THEN 2 * o.scale ELSE 5 * 40
            IN  (o.position.z >= threshold) <=> ~(\E j \in 1..Len(objects) : objects[j] = o)

\* main.rs: one object removed and another retained by the same update
C4_Witness ==
    /\ LastUpdateCulled
    /\ variant = "main_rs"
    /\ \E i \in 1..Len(pre_cull) : pre_cull[i].position.z >= 5 * 40
    /\ \E i \in 1..Len(pre_cull) : pre_cull[i].position.z < 5 * 40
    /\ Len(objects) >= 1

\* frame times dt for which update(2 * dt) is compared with update(dt) twice
HalfTimes == {1, 2, 24}

PosRot(objs) ==
    { [position |-> objs[i].position, orientation |-> objs[i].orientation] :
        i \in 1..Len(objs) }

\* the original statement of C3: from any reachable state and for a fixed
\* random source, update(2 * dt) and update(dt); update(dt) leave the same
\* live objects with the same positions and orientations, the objects spawned
\* during the calls included
C3_SameObjectsAll ==
    (pc = "idle") =>
        \A dt \in HalfTimes :
            PosRot(Update(St, 2 * dt).objects) = PosRot(Update(Update(St, dt), dt).objects)

\* the live objects, each marked with its index: the objects that exist before
\* the calls that are compared
Marked(objs) ==
    [i \in 1..Len(objs) |->
        [geometry |-> objs[i].geometry, position |-> objs[i].position,
         orientation |-> objs[i].orientation, roll |-> objs[i].roll,
         scale |-> objs[i].scale, color |-> objs[i].color, old |-> i]]

IsOld(obj) == "old" \in DOMAIN obj

StMarked == [St EXCEPT !.objects = Marked(@)]

\* C3 (amended): from any reachable state and for a fixed random source,
\* update(2 * dt) and update(dt); update(dt) retain the same objects among
\* those that were live before the calls, in the same order, with the same
\* positions and orientations.  (Objects spawned during the calls differ.)
C3_SameOldObjects ==
    (pc = "idle") =>
        \A dt \in HalfTimes :
            SelectSeq(Update(StMarked, 2 * dt).objects, IsOld)
                = SelectSeq(Update(Update(StMarked, dt), dt).objects, IsOld)

\* a state with a live object that survives the calls, where the calls also
\* spawn objects that end at different positions
C3_Witness ==
    /\ pc = "idle" /\ ~paused
    /\ \E dt \in HalfTimes :
        /\ Len(SelectSeq(Update(StMarked, 2 * dt).objects, IsOld)) >= 1
        /\ PosRot(Update(St, 2 * dt).objects) # PosRot(Update(Update(St, dt), dt).objects)

----------------------------------------------------------------------------
(* Claims about the geometry *)

Returned(fn) == g_done /\ g_call.fn = fn

Coords(v) == <<v.x, v.y, v.z>>

\* the axis a normal along a coordinate axis points along (1, 2 or 3)
AxisOf(normal) == CHOOSE a \in 1..3 : Coords(normal)[a] # Num(0)

IsAxisAligned(normal) == Cardinality({a \in 1..3 : Coords(normal)[a] # Num(0)}) = 1

Inside(k) == RLt(Num(-1), k) /\ RLt(k, Num(1))

Outside(k) == RLt(k, Num(-1)) \/ RLt(Num(1), k)

\* the plane is closer to a face of the cube than the distance (squared:
\* 1e-5) under which cross_sect takes two points for one
NearFace(k) == RLt(RMul(RSub(Num(1), RAbs(k)), RSub(Num(1), RAbs(k))), EPS)

\* p lies in the plane and on the boundary of the square the plane cuts
\* out of the cube
OnSquareBoundary(plane, p) ==
    LET a == AxisOf(plane.normal)
    IN  /\ dot(plane.normal, p) = plane.offset
        /\ \A b \in (1..3) \ {a} : RLe(RAbs(Coords(p)[b]), Num(1))
        /\ \E b \in (1..3) \ {a} : RAbs(Coords(p)[b]) = Num(1)

\* the corners of that square
SquareCorners(plane) ==
    LET a == AxisOf(plane.normal)
        at == RMul(Coords(plane.normal)[a], plane.offset)
    IN  { vec3(c[1], c[2], c[3]) :
            c \in { d \in [1..3 -> {Num(-1), Num(1), at}] :
                      /\ d[a] = at
                      /\ \A b \in (1..3) \ {a} : d[b] \in {Num(-1), Num(1)} } }

CornerReturned(c) ==
    \E i \in 1..Len(g_out) : RLt(len_sqr(VSub(g_out[i].world_pos, c)), EPS)

\* cross_sect has returned for a plane whose normal is along an axis
AxisCut == Returned("cross_sect") /\ IsAxisAligned(g_call.plane.normal)

AlongX ==
    /\ g_call.plane.normal = X_AXIS
    /\ g_call.p1.x = Num(0) /\ g_call.p2.x = Num(10)
    /\ g_call.p1.y = g_call.p2.y /\ g_call.p1.z = g_call.p2.z

\* C6: for the plane with normal (1,0,0) and offset k and a segment from
\* (0,y,z) to (10,y,z), intersect_segment returns exactly (k,y,z) when
\* 0 <= k <= 10 (the end points included) and None when k < 0 or k > 10
C6_SegmentHit ==
    (Returned("intersect_segment") /\ AlongX) =>
        LET k == g_call.plane.offset
        IN  IF RLe(Num(0), k) /\ RLe(k, Num(10))
            THEN g_out = Some(vec3(k, g_call.p1.y, g_call.p1.z))
            ELSE g_out = None

C6_Witness ==
    /\ Returned("intersect_segment") /\ AlongX
    /\ g_call.plane.offset = Num(10)
    /\ g_out = Some(g_call.p2)

cross(a, b) ==
    vec3(RSub(RMul(a.y, b.z), RMul(a.z, b.y)),
         RSub(RMul(a.z, b.x), RMul(a.x, b.z)),
         RSub(RMul(a.x, b.y), RMul(a.y, b.x)))

\* C8: for every plane (its normal of any length, not the zero vector, which
\* is the normal of no plane) and every point p, project(p) lies on the
\* plane (its distance is 0) and p - project(p) is along the normal; for a
\* normal along an axis, project(p) is p with its coordinate along the
\* normal (the product with the unit normal) replaced by the offset
C8_ProjectOnPlane ==
    Returned("project") =>
        LET plane == g_call.plane
            p == g_call.point
            unit == normalize_or_zero(plane.normal)
        IN  /\ distance(plane, g_out) = Num(0)
            /\ cross(VSub(p, g_out), plane.normal) = ivec3(0, 0, 0)
            /\ IsAxisAligned(plane.normal) =>
                  LET a == AxisOf(plane.normal)
                  IN  /\ RMul(Coords(unit)[a], Coords(g_out)[a]) = plane.offset
                      /\ \A b \in (1..3) \ {a} : Coords(g_out)[b] = Coords(p)[b]

C8_Witness ==
    /\ Returned("project")
    /\ g_call.plane.normal = ivec3(3, 4, 0)
    /\ g_call.plane.offset = Num(2)
    /\ g_call.point = ivec3(10, 2, 1)
    /\ g_out # g_call.point

\* C9: project2d depends neither on the offset of the plane nor on the
\* distance of the point from it: for every offset and every point (x,y,z)
\* the plane with normal +X gives (z, y) and the one with normal +Z (-x, y)
C9_Project2dAxes ==
    Returned("project2d") =>
        /\ g_call.plane.normal = X_AXIS => g_out = vec2(g_call.point.z, g_call.point.y)
        /\ g_call.plane.normal = Z_AXIS => g_out = vec2(RNeg(g_call.point.x), g_call.point.y)

C9_Witness ==
    /\ Returned("project2d")
    /\ g_call.plane = Plane(Z_AXIS, Num(-3))
    /\ g_call.point = ivec3(1, 2, 10)
    /\ g_out = vec2(Num(-1), Num(2))

Signs == {Num(-1), Num(1)}

\* the triangle t of a mesh lies on the face of the cube where coordinate a
\* is sign, and its vertices carry the normal that points out of that face
OnFace(mesh, t, a, sign) ==
    \A i \in (3 * t - 2)..(3 * t) :
        /\ Coords(mesh[i].a_pos)[a] = sign
        /\ Coords(mesh[i].a_normal)[a] = sign
        /\ \A b \in (1..3) \ {a} : Coords(mesh[i].a_normal)[b] = Num(0)

\* the normal of Triangle::new for the vertices of triangle t
WindingNormal(mesh, t) ==
    normalize_or_zero(cross(VSub(mesh[3 * t - 1].a_pos, mesh[3 * t - 2].a_pos),
                            VSub(mesh[3 * t].a_pos, mesh[3 * t - 2].a_pos)))

\* C10: unit_cube_triangulated returns 36 vertices, 12 triangles with their
\* corners among the 8 points (+-1,+-1,+-1), two triangles on each face of
\* the cube, and the normal from the winding of each triangle is the axis
\* of its face pointing away from the origin
C10_CubeMesh ==
    Returned("unit_cube_triangulated") =>
        /\ Len(g_out) = 36
        /\ \A i \in 1..Len(g_out) : \A a \in 1..3 : Coords(g_out[i].a_pos)[a] \in Signs
        /\ \A t \in 1..12 :
              /\ g_out[3 * t].a_normal = WindingNormal(g_out, t)
              /\ \E a \in 1..3, sign \in Signs : OnFace(g_out, t, a, sign)
        /\ \A a \in 1..3, sign \in Signs :
              Cardinality({t \in 1..12 : OnFace(g_out, t, a, sign)}) = 2

C10_Witness ==
    /\ Returned("unit_cube_triangulated")
    /\ Len(g_out) = 36
    /\ OnFace(g_out, 1, 3, Num(-1))

\* the side of the line a -> b that c lies on: 1 left, -1 right, 0 on it
orient(a, b, c) ==
    LET ab == VSub2(b, a)
        ac == VSub2(c, a)
        turn == RSub(RMul(ab.x, ac.y), RMul(ab.y, ac.x))
    IN  IF RLt(Num(0), turn) THEN 1 ELSE IF RLt(turn, Num(0)) THEN -1 ELSE 0

RMin(a, b) == IF RLt(a, b) THEN a ELSE b
RMax(a, b) == IF RLt(a, b) THEN b ELSE a

\* c, on the line through a and b, lies between them
between(a, b, c) ==
    /\ RLe(RMin(a.x, b.x), c.x) /\ RLe(c.x, RMax(a.x, b.x))
    /\ RLe(RMin(a.y, b.y), c.y) /\ RLe(c.y, RMax(a.y, b.y))

\* the segments a -- b and c -- d have a point in common
SegmentsMeet(a, b, c, d) ==
    \E o1 \in {orient(a, b, c)}, o2 \in {orient(a, b, d)},
       o3 \in {orient(c, d, a)}, o4 \in {orient(c, d, b)} :
        \/ o1 * o2 < 0 /\ o3 * o4 < 0
        \/ o1 = 0 /\ between(a, b, c)
        \/ o2 = 0 /\ between(a, b, d)
        \/ o3 = 0 /\ between(c, d, a)
        \/ o4 = 0 /\ between(c, d, b)

\* the point after point i of a closed chain of n points
After(i, n) == (i % n) + 1

\* the closed chain through points (a sequence of 2-D points) is a simple
\* polygon: no two edges that are not neighbours have a point in common
IsSimple(points) ==
    LET n == Len(points)
    IN  \A i, j \in 1..n :
            (i < j /\ After(i, n) # j /\ After(j, n) # i) =>
                ~SegmentsMeet(points[i], points[After(i, n)],
                              points[j], points[After(j, n)])

Projected(section) == [i \in 1..Len(section) |-> section[i].projected]

\* C11: the points cross_sect returns for a convex solid (the cube, cut
\* along an axis or at a slant), joined in the order returned and closed
\* back to the first, form a simple polygon
C11_SimplePolygon ==
    Returned("cross_sect") => IsSimple(Projected(g_out))

C11_Witness ==
    /\ Returned("cross_sect")
    /\ g_call.plane = Plane(ivec3(0, 3, 4), Rat(1, 2))
    /\ Len(g_out) >= 6
    /\ IsSimple(Projected(g_out))

\* the plane along an axis lies in a face of the cube
FaceCut == AxisCut /\ RAbs(g_call.plane.offset) = Num(1)

WorldPoints(section) == {section[i].world_pos : i \in 1..Len(section)}

\* C16 as stated: with the offset exactly 1 or -1 the result is empty or
\* has fewer than 3 distinct points
C16_Degenerate ==
    FaceCut => Cardinality(WorldPoints(g_out)) < 3

\* C16, amended: with the offset exactly 1 or -1 cross_sect returns 4
\* distinct points, the corners of the face of the cube that lies in the
\* plane (at least 3 points: the square is drawn)
C16_FaceCorners ==
    FaceCut =>
        /\ Len(g_out) = 4
        /\ WorldPoints(g_out) = SquareCorners(g_call.plane)
        /\ Cardinality(WorldPoints(g_out)) = 4

C16_Witness ==
    /\ FaceCut
    /\ g_call.plane = Plane(Z_AXIS, Num(1))
    /\ Len(g_out) = 4

\* the side of the plane a point lies on: 1, -1, or 0 in the plane
SideOf(plane, point) ==
    Let(distance(plane, point), LAMBDA d :
        IF RLt(Num(0), d) THEN 1 ELSE IF RLt(d, Num(0)) THEN -1 ELSE 0)

SidesOf(plane, triangle) == [i \in 1..3 |-> SideOf(plane, triangle.vertices[i])]

StrictlyBothSides(sides) == (\E i \in 1..3 : sides[i] = 1) /\ (\E i \in 1..3 : sides[i] = -1)

StrictlyOneSide(sides) == (\A i \in 1..3 : sides[i] = 1) \/ (\A i \in 1..3 : sides[i] = -1)

\* the edges of a triangle, in the order intersect_triangle tests them
EdgesOf(triangle) ==
    << <<triangle.vertices[1], triangle.vertices[2]>>,
       <<triangle.vertices[1], triangle.vertices[3]>>,
       <<triangle.vertices[2], triangle.vertices[3]>> >>

\* the edges on which intersect_segment accepts a point
AcceptedEdges(plane, triangle) ==
    { e \in 1..3 : intersect_segment(plane, EdgesOf(triangle)[e][1], EdgesOf(triangle)[e][2]) # None }

\* two vertices at different distances from the plane differ by 1e-5 or
\* more (no edge that meets the plane is taken for a parallel one)
ClearOfTolerance(plane, triangle) ==
    \A i, j \in 1..3 :
        \E di \in {distance(plane, triangle.vertices[i])},
           dj \in {distance(plane, triangle.vertices[j])} :
            di # dj => RLe(EPS, RAbs(RSub(di, dj)))

\* p = u + t * (v - u) for a t in [0, 1] (u # v)
OnSegment(p, u, v) ==
    \E k \in {CHOOSE k \in 1..3 : Coords(v)[k] # Coords(u)[k]} :
        \E t \in {RDiv(RSub(Coords(p)[k], Coords(u)[k]), RSub(Coords(v)[k], Coords(u)[k]))} :
            /\ RLe(Num(0), t) /\ RLe(t, Num(1))
            /\ p = VAdd(u, VScale(VSub(v, u), t))

\* p lies on the edge e of the triangle
OnEdge(p, triangle, e) == OnSegment(p, EdgesOf(triangle)[e][1], EdgesOf(triangle)[e][2])

\* the result is a pair of points of the plane, one on each accepted edge
PairOnEdges(plane, triangle, result) ==
    /\ Len(result) = 1
    /\ \A k \in 1..2 : distance(plane, result[1][k]) = Num(0)
    /\ \E e, f \in AcceptedEdges(plane, triangle) :
          e < f /\ OnEdge(result[1][1], triangle, e) /\ OnEdge(result[1][2], triangle, f)

\* C17 as stated: a triangle with vertices strictly on both sides has exactly
\* 2 accepted edges and intersect_triangle returns that pair, a vertex in the
\* plane or not; a triangle strictly on one side gives None
C17_TwoEdgesAlways ==
    Returned("intersect_triangle") =>
        LET sides == SidesOf(g_call.plane, g_call.triangle)
        IN  /\ (StrictlyBothSides(sides) /\ ClearOfTolerance(g_call.plane, g_call.triangle)) =>
                  /\ Cardinality(AcceptedEdges(g_call.plane, g_call.triangle)) = 2
                  /\ PairOnEdges(g_call.plane, g_call.triangle, g_out)
            /\ StrictlyOneSide(sides) => g_out = None

\* C17, amended: a triangle with vertices strictly on both sides and no
\* vertex in the plane has exactly 2 accepted edges and intersect_triangle
\* returns the pair of their points; with one vertex in the plane and the
\* other two strictly on opposite sides all 3 edges are accepted and the
\* result is None; a triangle strictly on one side gives None. (Distances
\* that differ differ by 1e-5 or more.)
C17_TwoEdges ==
    (Returned("intersect_triangle") /\ ClearOfTolerance(g_call.plane, g_call.triangle)) =>
        LET sides == SidesOf(g_call.plane, g_call.triangle)
            onPlane == {i \in 1..3 : sides[i] = 0}
        IN  /\ (StrictlyBothSides(sides) /\ onPlane = {}) =>
                  /\ Cardinality(AcceptedEdges(g_call.plane, g_call.triangle)) = 2
                  /\ PairOnEdges(g_call.plane, g_call.triangle, g_out)
            /\ (StrictlyBothSides(sides) /\ onPlane # {}) =>
                  /\ Cardinality(AcceptedEdges(g_call.plane, g_call.triangle)) = 3
                  /\ g_out = None
            /\ StrictlyOneSide(sides) => g_out = None

\* a vertex in the plane, the other two on opposite sides: None
C17_Witness ==
    /\ Returned("intersect_triangle")
    /\ g_call.plane = Plane(X_AXIS, Num(0))
    /\ g_call.triangle.vertices = <<ivec3(0, 1, 0), ivec3(-1, 0, 0), ivec3(1, 0, 0)>>
    /\ g_out = None

----------------------------------------------------------------------------
(* Spawn scheduling over a sequence of updates *)

\* the fixed interval of state.rs, in ticks
FixedInterval == TimeScale \div SPAWN_STEP_DEN

CeilDiv(a, b) == (a + b - 1) \div b

\* C15: with the fixed interval of state.rs, the number of spawn attempts made
\* since construction is a function of the sum T of the delta_times alone
\* (T = simulation_time): between updates it is ceil(T / 0.1), however T was
\* split into frames.
C15_AttemptsDependOnSum ==
    (variant = "state_rs" /\ pc = "idle") =>
        total_attempts = CeilDiv(simulation_time, FixedInterval)

\* T = 0.2 s reached in two frames of different length, 0.15 s first
C15_Witness ==
    /\ variant = "state_rs" /\ pc = "idle"
    /\ updates = 2 /\ delta_time = 1 /\ simulation_time = 4
    /\ total_attempts = 2

\* the largest interval a pass of the drain loop can add, in ticks:
\* 0.1 s in state.rs, 0.1 + 0.4 s in main.rs
LargestInterval ==
    IF variant = "state_rs" THEN FixedInterval ELSE 5 * FixedInterval

\* C19: the drain loop ends: every pass raises next_spawn by at least 0.1
\* (exactly 0.1 in state.rs, at most 0.5 in main.rs) and makes at most 5
\* placement checks, an update of elapsed time dt makes at most
\* ceil(dt / 0.1) + 1 passes, and the loop leaves next_spawn in
\* [0, largest interval).
C19_DrainBounded ==
    /\ (pc = "drain" /\ attempt.made) =>
          /\ next_spawn = attempt.before.next_spawn + attempt.interval
          /\ attempt.interval >= FixedInterval
          /\ attempt.interval <= LargestInterval
          /\ Len(attempt.tested) <= RETRIES
    /\ pc = "drain" => iterations <= CeilDiv(delta_time, FixedInterval) + 1
    /\ ((pc = "drain" /\ ~DrainCondition(next_spawn)) \/ pc = "idle") =>
          (0 <= next_spawn /\ next_spawn < LargestInterval)

\* the loop of a long frame has ended after as many passes as the frame
\* has whole intervals (state.rs: 2.4 s, 24 passes)
C19_Witness ==
    /\ variant = "state_rs" /\ pc = "drain" /\ ~DrainCondition(next_spawn)
    /\ delta_time = 48 /\ iterations = 24
    /\ attempt.made /\ Len(attempt.tested) = RETRIES

----------------------------------------------------------------------------
(* Drift *)

\* C20: in every reachable state, between and inside updates, before and
\* after culling, every two distinct live objects are at least
\* (scale_i + scale_j) * 1.74 apart.
C20_SeparationKept == PairwiseFar(objects) /\ PairwiseFar(pre_cull)

\* two objects spawned by different updates at the same (x, y) have both
\* drifted and both survived the culling
C20_Witness ==
    /\ pc = "idle" /\ updates = 2 /\ delta_time > 0
    /\ \E i, j \in 1..Len(objects) :
          /\ i < j
          /\ objects[i].position.x = objects[j].position.x
          /\ objects[i].position.y = objects[j].position.y
          /\ objects[i].position.z > objects[j].position.z

\* a is b with some elements left out, the others in the order of b
RECURSIVE IsSubsequence(_, _)
IsSubsequence(a, b) ==
    IF a = <<>> THEN TRUE
    ELSE IF b = <<>> THEN FALSE
    ELSE IF Head(a) = Head(b) THEN IsSubsequence(Tail(a), Tail(b))
    ELSE IsSubsequence(a, Tail(b))

\* the step of update that integrates and culls, simulation running
IntegrationStep == pc \in {"drain", "move"} /\ pc' = "idle" /\ ~paused

\* 0.5 * delta_time, in units of length
Drift(dt) == (dt * LenScale) \div (SPEED_DEN * TimeScale)

\* before is the object before the integration, after the same object after it
Integrated(before, after) ==
    /\ after.position.z = before.position.z + Drift(delta_time)
    /\ after.position.x = before.position.x
    /\ after.position.y = before.position.y
    /\ after.orientation.y = before.orientation.y
    /\ after.orientation.flat_len = before.orientation.flat_len
    /\ after.roll = before.roll
    /\ after.scale = before.scale
    /\ after.color = before.color
    /\ after.geometry = before.geometry

\* C18: the integration step of update(dt) moves every live object by
\* 0.5 * dt along z and turns only the horizontal part of its orientation;
\* x, y, the vertical component of the orientation, roll, scale, color and
\* prefab stay, and the survivors of the culling keep their order.
C18_IntegrationFrame ==
    [][IntegrationStep =>
          /\ Len(pre_cull') = Len(objects)
          /\ \A i \in 1..Len(objects) : Integrated(objects[i], pre_cull'[i])
          /\ IsSubsequence(objects', pre_cull')
          /\ \A i \in 1..Len(pre_cull') :
                Retained(pre_cull'[i]) => \E k \in 1..Len(objects') : objects'[k] = pre_cull'[i]
      ]_vars

\* an update has moved and turned its objects, one of them with a vertical
\* component in its orientation; some were culled, two or more survive
C18_Witness ==
    /\ pc = "idle" /\ updates > 0 /\ ~paused /\ delta_time > 0
    /\ Len(objects) >= 2 /\ Len(pre_cull) > Len(objects)
    /\ \E i \in 1..Len(objects) :
          objects[i].orientation.y # 0 /\ objects[i].orientation.flat_arg # 90 * AngleScale

----------------------------------------------------------------------------
(* Drawing *)

\* the step with which a draw call hands its polygons to the renderer
RenderStep == d_pc = "sections" /\ d_pc' = "idle"

\* the objects whose cross-section has at least 3 points
Qualifying == {i \in 1..Len(objects) : Len(d_sections[i]) >= 3}

\* the k-th of them in the order of the collection
KthQualifying(k) ==
    CHOOSE i \in Qualifying : Cardinality({j \in Qualifying : j < i}) = k - 1

\* the points of a cross-section as the 2-d renderer sees them
Mirrored(section) ==
    {vec2(RNeg(section[i].projected.x), section[i].projected.y) : i \in 1..Len(section)}

PointsOf(chain) == {chain[i] : i \in 2..(Len(chain) - 1)}

\* C12: a draw call hands to the renderer one polygon for each object whose
\* cross-section has at least 3 points and none for the others, in the order
\* of the live-object collection, each with the color of its object; nothing
\* is handed over before.
C12_DrawnInOrder ==
    [][/\ (d_pc = "sections" /\ ~RenderStep) => rendered' = <<>>
       /\ RenderStep =>
             /\ Len(d_sections) = Len(objects)
             /\ Len(rendered') = Cardinality(Qualifying)
             /\ \A k \in 1..Len(rendered') :
                   /\ rendered'[k].color = objects[KthQualifying(k)].color
                   /\ PointsOf(rendered'[k].chain) = Mirrored(d_sections[KthQualifying(k)])
      ]_vars

\* a draw of three objects has left out the first, which the plane misses,
\* and drawn the other two, of different colors
C12_Witness ==
    /\ d_pc = "idle" /\ updates = 0
    /\ Len(objects) = 3 /\ Len(d_sections) = 3
    /\ Len(d_sections[1]) < 3 /\ Len(d_sections[2]) >= 3 /\ Len(d_sections[3]) >= 3
    /\ Len(rendered) = 2
    /\ rendered[1].color = objects[2].color
    /\ rendered[2].color = objects[3].color
    /\ rendered[1].color # rendered[2].color

\* a step of a draw call, a step of an update call
DrawStep == d_pc # "idle" \/ d_pc' # "idle"
UpdateStep == pc # "idle" \/ pc' # "idle"

\* C14: among update and draw calls in any order, the steps of a draw call
\* leave the collection of live objects, every field of every object,
\* simulation_time and next_spawn as they are; only steps of update change them.
C14_DrawReadsOnly ==
    [][/\ DrawStep =>
             (objects' = objects /\ simulation_time' = simulation_time
                 /\ next_spawn' = next_spawn)
       /\ (objects' # objects \/ simulation_time' # simulation_time
              \/ next_spawn' # next_spawn) => (UpdateStep /\ ~DrawStep)
      ]_vars

\* a draw call between two updates and another after them: the second has
\* drawn objects the updates have moved
C14_Witness ==
    /\ d_pc = "idle" /\ pc = "idle" /\ updates = 2
    /\ Len(d_sections) = Len(objects)
    /\ rendered # <<>>
    /\ \E i \in 1..Len(objects) : objects[i] \notin {SceneObjects.a, SceneObjects.b, SceneObjects.c}

\* the renderer's chain for the points p (the mirrored input, n of them):
\* m, p1, ..., p(n-1), p0, m with m = (p0 + p1) / 2
ClosedChain(p) ==
    LET n == Len(p)
        m == vec2(RDiv(RAdd(p[1].x, p[2].x), Num(2)), RDiv(RAdd(p[1].y, p[2].y), Num(2)))
    IN  [k \in 1..(n + 2) |->
            IF k = 1 \/ k = n + 2 THEN m ELSE IF k <= n THEN p[k] ELSE p[1]]

\* C13: for a cross-section of n >= 3 points, p0 .. p(n-1) after mirroring,
\* draw_flat_section hands to the renderer the chain m, p1, .., p(n-1), p0, m,
\* m = (p0 + p1) / 2: n + 2 points, the first and the last the same, every
\* point of the input once.
C13_ClosedChain ==
    (Returned("draw_flat_section") /\ Len(g_call.cross_section) >= 3) =>
        LET n == Len(g_call.cross_section)
            p == [i \in 1..n |-> vec2(RNeg(g_call.cross_section[i].projected.x),
                                      g_call.cross_section[i].projected.y)]
        IN  /\ Len(g_out) = 1
            /\ g_out[1].chain = ClosedChain(p)
            /\ Len(g_out[1].chain) = n + 2
            /\ g_out[1].chain[1] = g_out[1].chain[n + 2]
            /\ \A i \in 1..n :
                  Cardinality({k \in 1..(n + 2) : g_out[1].chain[k] = p[i]}) = 1

\* the chain of a hexagon has been handed over by the draw_flat_section of main.rs
C13_Witness ==
    /\ Returned("draw_flat_section") /\ variant = "main_rs"
    /\ Len(g_call.cross_section) = 6
    /\ Len(g_out) = 1 /\ Len(g_out[1].chain) = 8

----------------------------------------------------------------------------
(* The range of the live objects *)

\* an update call has returned
Updated == pc = "idle" /\ updates > 0

\* 0.3 and 1.0, the ends of the range of scales, in units of length
MinScale == (3 * LenScale) \div 10
MaxScale == LenScale

\* C22: after every update call of state.rs every live object has
\* 0.3 <= scale <= 1.0 and -2 * scale <= position.z < 2 * scale; after every
\* update call of main.rs made while not paused every live object has
\* -5 <= position.z < 5.
C22_ObjectsInRange ==
    /\ (Updated /\ variant = "state_rs") =>
          \A i \in 1..Len(objects) :
              /\ MinScale <= objects[i].scale /\ objects[i].scale <= MaxScale
              /\ -(2 * objects[i].scale) <= objects[i].position.z
              /\ objects[i].position.z < 2 * objects[i].scale
    /\ (Updated /\ variant = "main_rs" /\ ~paused) =>
          \A i \in 1..Len(objects) :
              /\ -(MAIN_SPAWN_Z * LenScale) <= objects[i].position.z
              /\ objects[i].position.z < MAIN_CULL_Z * LenScale

\* state.rs after two updates: a live object of the largest scale is past
\* the plane z = 0, and one of the smallest was culled at its threshold
C22_Witness ==
    /\ Updated /\ variant = "state_rs" /\ updates = 2
    /\ \E j \in 1..Len(objects) :
          objects[j].scale = MaxScale /\ objects[j].position.z > 0
    /\ \E k \in 1..Len(pre_cull) :
          pre_cull[k].scale = MinScale /\ pre_cull[k].position.z = 2 * pre_cull[k].scale

----------------------------------------------------------------------------
(* Pausing (main.rs) *)

\* a step between update calls: handle_event for a press of key P
KeyPressStep == pc = "idle" /\ pc' = "idle"

\* the simulation is as it was: clock, countdown, live objects, the number
\* of spawn attempts made and the position in the random source
Frozen ==
    /\ simulation_time' = simulation_time
    /\ next_spawn' = next_spawn
    /\ objects' = objects
    /\ total_attempts' = total_attempts
    /\ rng_pos' = rng_pos

\* C23: a press of key P toggles paused and nothing else of the simulation;
\* no step of an update call made while paused changes simulation_time,
\* next_spawn or the live objects, whatever its delta_time, and it makes no
\* spawn attempt; so the first update after un-pausing starts from the state
\* the simulation had when it was paused.
C23_PauseFreezes ==
    [][/\ KeyPressStep => (variant = "main_rs" /\ paused' = ~paused /\ Frozen)
       /\ (paused /\ UpdateStep) => (Frozen /\ paused')
       /\ (paused /\ pc = "idle") => \A dt \in DeltaTimes : Update(St, dt) = St
      ]_vars

\* a long update has returned while paused: the clock still shows the time
\* of the short update before the pause, and the objects are there
C23_Witness ==
    /\ variant = "main_rs" /\ pc = "idle" /\ paused
    /\ updates = 2 /\ delta_time = 250 /\ simulation_time = 3
    /\ pre_cull = <<>> /\ objects # <<>>

----------------------------------------------------------------------------
(* The age of the live objects *)

\* the time an object has been live, in ticks of the simulation's clock
Age(i) == simulation_time - born[i]

\* the age at which an object is gone: 8 * scale seconds in state.rs (from
\* z = -2 * scale to z = 2 * scale), 20 seconds in main.rs (from -5 to 5)
AgeLimit(obj) ==
    IF variant = "state_rs" THEN (8 * obj.scale * TimeScale) \div LenScale
    ELSE 20 * TimeScale

====
